---- MODULE Spec2Model ----
(***************************************************************************)
(* Model of create_sheet.py: the monthly reconciliation (generar_resumen), *)
(* the data access helper (ejecutar_consulta), the chart binder            *)
(* (agregar_graficos) and the report run (main).                           *)
(*                                                                         *)
(* Tables (pandas DataFrames) are records [columns, rows]; rows are        *)
(* sequences of records.  A monetary cell is a record [t, c]: t is the     *)
(* Python type of the cell ("Decimal", "int", "float", "NaN") and c its    *)
(* value in hundredths.  Text (the year typed by the user, str(x) of a     *)
(* cell) is a sequence of one-character strings.                           *)
(***************************************************************************)
EXTENDS Integers, Sequences, FiniteSets, TLC

\* ------------------------------------------------------------- bounds
\* Total number of rows in the two input tables of generar_resumen.
MaxFilas == 3

\* ------------------------------------------------- program constants
\* The scaffold has months 1..NumMeses (range(1, 13), [int(anio)] * 12).
NumMeses == 12

\* ------------------------------------------------------------- cells
Dec(c) == [t |-> "Decimal", c |-> c]
NaN == [t |-> "NaN", c |-> 0]
IntCero == [t |-> "int", c |-> 0]
FloatCero == [t |-> "float", c |-> 0]

Abs(n) == IF n < 0 THEN 0 - n ELSE n

\* -------------------------------------------------------------- text
Digitos == <<"0", "1", "2", "3", "4", "5", "6", "7", "8", "9">>

EsDigito(ch) == \E i \in 1..10 : Digitos[i] = ch

ValorDigito(ch) == (CHOOSE i \in 1..10 : Digitos[i] = ch) - 1

RECURSIVE DigitosDe(_)
\* The decimal digits of a natural number, most significant first.
DigitosDe(n) ==
    IF n < 10 THEN <<Digitos[n + 1]>>
    ELSE DigitosDe(n \div 10) \o <<Digitos[(n % 10) + 1]>>

RECURSIVE ValorDe(_)
\* The natural number a non-empty sequence of digits denotes.
ValorDe(s) ==
    IF Len(s) = 1 THEN ValorDigito(s[1])
    ELSE 10 * ValorDe(SubSeq(s, 1, Len(s) - 1)) + ValorDigito(s[Len(s)])

TodosDigitos(s) == Len(s) > 0 /\ \A i \in 1..Len(s) : EsDigito(s[i])

\* int(anio) of a str: an optional sign and at least one digit, else ValueError.
IntParseable(s) ==
    \/ TodosDigitos(s)
    \/ Len(s) > 1 /\ s[1] = "-" /\ TodosDigitos(Tail(s))

IntDe(s) == IF s[1] = "-" THEN 0 - ValorDe(Tail(s)) ELSE ValorDe(s)

\* str(x) of a cell.  A Decimal read from a DECIMAL(n,2) column prints its
\* two places ('1500.50'); int 0 prints '0', float 0.0 prints '0.0'.
\* Fault: the hundredths are printed without their leading zero ('25.5' for 25.05).
StrMal(x) ==
    IF x.t = "NaN" THEN <<"n", "a", "n">>
    ELSE IF x.t = "int" THEN DigitosDe(x.c \div 100)
    ELSE IF x.t = "float" THEN DigitosDe(x.c \div 100) \o <<".", "0">>
    ELSE (IF x.c < 0 THEN <<"-">> ELSE <<>>)
         \o DigitosDe(Abs(x.c) \div 100) \o <<".">>
         \o DigitosDe(Abs(x.c) % 100)

Str(x) ==
    IF x.t = "NaN" THEN <<"n", "a", "n">>
    ELSE IF x.t = "int" THEN DigitosDe(x.c \div 100)
    ELSE IF x.t = "float" THEN DigitosDe(x.c \div 100) \o <<".", "0">>
    ELSE (IF x.c < 0 THEN <<"-">> ELSE <<>>)
         \o DigitosDe(Abs(x.c) \div 100) \o <<".">>
         \o <<Digitos[((Abs(x.c) % 100) \div 10) + 1], Digitos[(Abs(x.c) % 10) + 1]>>

PosPunto(s) == IF \E i \in 1..Len(s) : s[i] = "."
               THEN CHOOSE i \in 1..Len(s) : s[i] = "."
               ELSE Len(s) + 1

\* The hundredths an unsigned decimal numeral denotes ('12', '12.5', '12.50').
CentavosDe(s) ==
    LET p == PosPunto(s)
        ent == SubSeq(s, 1, p - 1)
        fr == SubSeq(s, p + 1, Len(s))
    IN  100 * ValorDe(ent)
        + (IF Len(fr) = 0 THEN 0
           ELSE IF Len(fr) = 1 THEN 10 * ValorDe(fr)
           ELSE ValorDe(SubSeq(fr, 1, 2)))

\* Decimal(s): 'nan' gives Decimal('NaN'); otherwise the exact value.
DecimalDe(s) ==
    IF s = <<"n", "a", "n">> THEN NaN
    ELSE IF s[1] = "-" THEN Dec(0 - CentavosDe(Tail(s)))
    ELSE Dec(CentavosDe(s))

\* ------------------------------------------------------------ tables
ColumnasMensuales == <<"Anio", "Mes", "Monto">>

\* pd.DataFrame(): no columns, no rows (what ejecutar_consulta returns on error).
DataFrameVacio == [columns |-> <<>>, rows |-> <<>>]

DataFrame(rows, columns) == [columns |-> columns, rows |-> rows]

Empty(df) == Len(df.rows) = 0 \/ Len(df.columns) = 0

TieneColumna(df, col) == \E i \in 1..Len(df.columns) : df.columns[i] = col

ClaveMenor(a, b) == a.Anio < b.Anio \/ (a.Anio = b.Anio /\ a.Mes < b.Mes)

MismaClave(a, b) == a.Anio = b.Anio /\ a.Mes = b.Mes

\* Fault: the scaffold stops one month short (range(1, 12)).
meses_incompletos(y) == [i \in 1..(NumMeses - 1) |-> [Anio |-> y, Mes |-> i]]

\* 'Año': [int(anio)] * 12, 'Mes': list(range(1, 13))
meses_completos(y) == [i \in 1..NumMeses |-> [Anio |-> y, Mes |-> i]]

RECURSIVE MergeLeftSoloMes(_, _)
\* Fault: the left join matches on the month alone (on=['Mes']).
MergeLeftSoloMes(left, right) ==
    IF left = <<>> THEN <<>>
    ELSE LET l == Head(left)
             m == SelectSeq(right, LAMBDA r : r.Mes = l.Mes)
         IN  (IF m = <<>>
              THEN <<[Anio |-> l.Anio, Mes |-> l.Mes, Monto |-> NaN]>>
              ELSE [i \in 1..Len(m) |->
                       [Anio |-> l.Anio, Mes |-> l.Mes, Monto |-> m[i].Monto]])
             \o MergeLeftSoloMes(Tail(left), right)

RECURSIVE MergeLeftInner(_, _)
\* Fault: an inner join (how='inner'), which drops the months with no row.
MergeLeftInner(left, right) ==
    IF left = <<>> THEN <<>>
    ELSE LET l == Head(left)
             m == SelectSeq(right, LAMBDA r : MismaClave(l, r))
         IN  [i \in 1..Len(m) |-> [Anio |-> l.Anio, Mes |-> l.Mes, Monto |-> m[i].Monto]]
             \o MergeLeftInner(Tail(left), right)

RECURSIVE MergeLeft(_, _)
\* pd.merge(left, right, on=['Año', 'Mes'], how='left'): every left row, in the
\* left order, once per matching right row, or once with NaN when none matches.
MergeLeft(left, right) ==
    IF left = <<>> THEN <<>>
    ELSE LET l == Head(left)
             m == SelectSeq(right, LAMBDA r : MismaClave(l, r))
         IN  (IF m = <<>>
              THEN <<[Anio |-> l.Anio, Mes |-> l.Mes, Monto |-> NaN]>>
              ELSE [i \in 1..Len(m) |->
                       [Anio |-> l.Anio, Mes |-> l.Mes, Monto |-> m[i].Monto]])
             \o MergeLeft(Tail(left), right)

\* The fill value of .infer_objects().fillna(0) for a column: a column that is
\* all NaN is inferred float64 and filled with 0.0, an object column with int 0.
CeroDe(col) == IF \A i \in 1..Len(col) : col[i].t \in {"NaN", "float"}
               THEN FloatCero ELSE IntCero

\* .infer_objects(copy=False).fillna(0) on a merged monthly table.
FillNa(rows) ==
    LET cero == CeroDe([i \in 1..Len(rows) |-> rows[i].Monto])
    IN  [i \in 1..Len(rows) |->
            IF rows[i].Monto.t = "NaN" THEN [rows[i] EXCEPT !.Monto = cero]
            ELSE rows[i]]

ClavesDe(rows) == {[Anio |-> rows[i].Anio, Mes |-> rows[i].Mes] : i \in 1..Len(rows)}

RECURSIVE ClavesOrdenadas(_)
\* The keys of a set in ascending (Año, Mes) order.
ClavesOrdenadas(S) ==
    IF S = {} THEN <<>>
    ELSE LET k == CHOOSE x \in S : \A y \in S : ~ClaveMenor(y, x)
         IN  <<k>> \o ClavesOrdenadas(S \ {k})

\* The rows an outer merge gives for one key: left matches x right matches,
\* NaN on the side that has none.
FilasDeClave(k, left, right) ==
    LET lm == SelectSeq(left, LAMBDA r : MismaClave(k, r))
        rm == SelectSeq(right, LAMBDA r : MismaClave(k, r))
        lv == IF lm = <<>> THEN <<NaN>> ELSE [i \in 1..Len(lm) |-> lm[i].Monto]
        rv == IF rm = <<>> THEN <<NaN>> ELSE [i \in 1..Len(rm) |-> rm[i].Monto]
    IN  [n \in 1..(Len(lv) * Len(rv)) |->
            [Anio |-> k.Anio, Mes |-> k.Mes,
             Monto_Ingresos |-> lv[((n - 1) \div Len(rv)) + 1],
             Monto_Egresos |-> rv[((n - 1) % Len(rv)) + 1]]]

RECURSIVE Concatenar(_)
Concatenar(ss) == IF ss = <<>> THEN <<>> ELSE Head(ss) \o Concatenar(Tail(ss))

\* pd.merge(left, right, on=["Año", "Mes"], how="outer",
\*          suffixes=("_Ingresos", "_Egresos")): keys in sorted order.
MergeOuter(left, right) ==
    LET ks == ClavesOrdenadas(ClavesDe(left) \cup ClavesDe(right))
    IN  Concatenar([i \in 1..Len(ks) |-> FilasDeClave(ks[i], left, right)])

\* .fillna(0) on the joined table.
FillNaResumen(rows) ==
    LET ci == CeroDe([i \in 1..Len(rows) |-> rows[i].Monto_Ingresos])
        ce == CeroDe([i \in 1..Len(rows) |-> rows[i].Monto_Egresos])
    IN  [i \in 1..Len(rows) |->
            [rows[i] EXCEPT
               !.Monto_Ingresos = IF @.t = "NaN" THEN ci ELSE @,
               !.Monto_Egresos = IF @.t = "NaN" THEN ce ELSE @]]

\* Fault: the balance adds the expense.
RestaMal(a, b) == IF a.t = "NaN" \/ b.t = "NaN" THEN NaN ELSE Dec(a.c + b.c)

\* Decimal subtraction (NaN is absorbing).
Resta(a, b) == IF a.t = "NaN" \/ b.t = "NaN" THEN NaN ELSE Dec(a.c - b.c)

\* df_resumen[col].apply(lambda x: Decimal(str(x))) on both columns, then
\* df_resumen["Balance"] = Monto_Ingresos - Monto_Egresos.
CalcularBalance(rows) ==
    [i \in 1..Len(rows) |->
        LET ing == DecimalDe(Str(rows[i].Monto_Ingresos))
            egr == DecimalDe(Str(rows[i].Monto_Egresos))
        IN  [Anio |-> rows[i].Anio, Mes |-> rows[i].Mes,
             Monto_Ingresos |-> ing, Monto_Egresos |-> egr,
             Balance |-> Resta(ing, egr)]]

RECURSIVE Insertar(_, _)
Insertar(r, s) ==
    IF s = <<>> THEN <<r>>
    ELSE IF ClaveMenor(r, Head(s)) THEN <<r>> \o s
    ELSE <<Head(s)>> \o Insertar(r, Tail(s))

RECURSIVE SortValues(_)
\* df.sort_values(by=["Año", "Mes"])
SortValues(rows) ==
    IF rows = <<>> THEN <<>>
    ELSE Insertar(rows[Len(rows)], SortValues(SubSeq(rows, 1, Len(rows) - 1)))

Nombres == <<"Enero", "Febrero", "Marzo", "Abril", "Mayo", "Junio", "Julio",
             "Agosto", "Septiembre", "Octubre", "Noviembre", "Diciembre">>

\* df_resumen['Mes'].map(meses_nombres): a month outside the table maps to NaN.
meses_nombres(m) == IF m \in 1..Len(Nombres) THEN Nombres[m] ELSE "NaN"

cols == <<"Anio", "Mes", "Mes_Nombre", "Monto_Ingresos", "Monto_Egresos", "Balance">>

\* What a call returns or raises.
Devuelve(df) == [error |-> "ninguno", df |-> df]
Lanza(e) == [error |-> e, df |-> DataFrameVacio]

\* generar_resumen(df_ingresos, df_egresos, anio)
generar_resumen(ingresos, egresos, a) ==
    IF ~IntParseable(a) THEN Lanza("ValueError")
    ELSE IF \E c \in {"Anio", "Mes"} :
                ~TieneColumna(ingresos, c) \/ ~TieneColumna(egresos, c)
    THEN Lanza("KeyError")
    ELSE
    LET completos == meses_completos(IntDe(a))
        df_ingresos_completo == FillNa(MergeLeft(completos, ingresos.rows))
        df_egresos_completo == FillNa(MergeLeft(completos, egresos.rows))
        unido == FillNaResumen(MergeOuter(df_ingresos_completo, df_egresos_completo))
        ordenado == SortValues(CalcularBalance(unido))
    IN  Devuelve(DataFrame(
            [i \in 1..Len(ordenado) |->
                [Anio |-> ordenado[i].Anio, Mes |-> ordenado[i].Mes,
                 Mes_Nombre |-> meses_nombres(ordenado[i].Mes),
                 Monto_Ingresos |-> ordenado[i].Monto_Ingresos,
                 Monto_Egresos |-> ordenado[i].Monto_Egresos,
                 Balance |-> ordenado[i].Balance]],
            cols))

\* pd.to_numeric(col, errors="coerce") on a Decimal cell: the float64 nearest
\* to it, whose shortest repr is the same numeral (up to 15 significant digits).
ANumero(x) == IF x.t = "NaN" THEN NaN ELSE [t |-> "float", c |-> x.c]

\* main: the three pd.to_numeric assignments on df_resumen.
to_numeric(df) ==
    [df EXCEPT !.rows = [i \in 1..Len(df.rows) |->
        [df.rows[i] EXCEPT !.Monto_Ingresos = ANumero(@),
                           !.Monto_Egresos = ANumero(@),
                           !.Balance = ANumero(@)]]]

\* ------------------------------------------------------------ inputs
\* The year texts tried: a year, zero, a negative number, and text that int()
\* refuses although the database compares it as the number 2024 ('2024.0').
AnioEntradas ==
    { <<"2", "0", "2", "4">>, <<"0">>, <<"-", "1">>,
      <<"2", "0", "2", "4", ".", "0">> }

\* SUM(monto) values, in hundredths: 1500.50 and -25.05.
Montos == {150050, 0 - 2505}

\* The (Año, Mes) keys input rows are drawn from: months of the year 2024 in
\* and out of 1..12, and one month of another year.
ClavesEntrada ==
    { [Anio |-> 2024, Mes |-> m] : m \in {0, 1, 7, 12, 13} }
    \cup { [Anio |-> 2023, Mes |-> 7] }

\* A monthly aggregate as the GROUP BY ... ORDER BY query returns it: one row
\* per key, in ascending key order.
Mensual(S, f) ==
    LET ks == ClavesOrdenadas(S)
    IN  DataFrame([i \in 1..Len(ks) |->
                      [Anio |-> ks[i].Anio, Mes |-> ks[i].Mes, Monto |-> Dec(f[ks[i]])]],
                  ColumnasMensuales)

Mensuales(n) ==
    UNION { { Mensual(S, f) : f \in [S -> Montos] } :
            S \in { T \in SUBSET ClavesEntrada : Cardinality(T) <= n } }

\* -------------------------------------------------- ejecutar_consulta
\* What the database does during one call: how connect, cursor, execute and
\* fetchall end, what conn.is_connected() answers in the finally block, and
\* the table the query yields.
Entornos(tablas) ==
    [connect : {"ok", "mysql.connector.Error", "Exception"},
     cursor : {"ok", "mysql.connector.Error"},
     execute : {"ok", "mysql.connector.Error"},
     fetchall : {"ok", "mysql.connector.Error"},
     is_connected : BOOLEAN,
     tabla : tablas]

\* The try block: the first step that fails decides how far the call got.
Falla(e) ==
    IF e.connect # "ok" THEN "connect"
    ELSE IF e.cursor # "ok" THEN "cursor"
    ELSE IF e.execute # "ok" THEN "execute"
    ELSE IF e.fetchall # "ok" THEN "fetchall"
    ELSE "ninguna"

\* ejecutar_consulta(query) under environment e: the value returned (df) or the
\* exception that leaves the function (error), and the connection and cursor
\* as the call leaves them.
ejecutar_consulta(e) ==
    LET falla == Falla(e)
        conn == IF falla = "connect" THEN "None" ELSE "abierta"
        cursor == IF falla \in {"connect", "cursor"} THEN "sin asignar" ELSE "abierto"
        df == IF falla = "ninguna" THEN e.tabla ELSE DataFrameVacio
    IN  IF conn = "None"
        THEN [error |-> "ninguno", df |-> df, conn |-> conn, cursor |-> cursor]
        ELSE IF ~e.is_connected
        THEN [error |-> "ninguno", df |-> df, conn |-> "desconectada", cursor |-> cursor]
        ELSE IF cursor = "sin asignar"
        THEN [error |-> "UnboundLocalError", df |-> DataFrameVacio,
              conn |-> "abierta", cursor |-> cursor]
        ELSE [error |-> "ninguno", df |-> df, conn |-> "cerrada", cursor |-> "cerrado"]

\* --------------------------------------------------- agregar_graficos
RECURSIVE Quitar(_, _)
\* list.remove(x): the list without its first element equal to x.
Quitar(s, x) ==
    IF s = <<>> THEN <<>>
    ELSE IF Head(s) = x THEN Tail(s)
    ELSE <<Head(s)>> \o Quitar(Tail(s), x)

RECURSIVE Descartar(_, _)
\* for chart in ws._charts: ws._charts.remove(chart), the iterator being at
\* index i of the list it is shrinking.
Descartar(charts, i) ==
    IF i > Len(charts) THEN charts
    ELSE Descartar(Quitar(charts, charts[i]), i + 1)

ChartBar == "Ingresos vs Egresos por Mes"
ChartLine == "Evolucion del Balance"

ArchivoAusente == [existe |-> FALSE, hojas |-> {}, charts |-> <<>>]

NombresDeHojas(hojas) == {h.nombre : h \in hojas}

\* agregar_graficos(nombre_archivo) on file f as it is on disk: the file it
\* leaves and the message it prints.  carga says whether
\* openpyxl.load_workbook succeeds (any exception is caught and printed, and
\* nothing is saved).
agregar_graficos(f, carga) ==
    IF ~carga \/ ~f.existe
    THEN [archivo |-> f, mensaje |-> "Error al agregar graficos"]
    ELSE IF "Resumen" \notin NombresDeHojas(f.hojas)
    THEN [archivo |-> f, mensaje |-> "La hoja 'Resumen' no existe en el archivo."]
    ELSE [archivo |-> [f EXCEPT !.charts = Descartar(@, 1) \o <<ChartBar, ChartLine>>],
          mensaje |-> "Graficos agregados correctamente."]

\* ---------------------------------------------------------------- main
niveles_disponibles == <<"Inicial", "Primaria", "Secundaria", "Terciario">>

Opciones == {"1", "2", "3", "4", "9"}

OpcionValida(op) == op \in {"1", "2", "3", "4"}

NivelDe(op) == niveles_disponibles[ValorDigito(op)]

\* str(datetime.now().year)
current_year == <<"2", "0", "2", "4">>

consultas == <<"Ingresos", "Egresos", "Ingresos Mensuales", "Egresos Mensuales",
               "Matricula", "Nomina de Estudiantes">>

EsMensual(nombre) == nombre \in {"Ingresos Mensuales", "Egresos Mensuales"}

\* What a monthly query can yield: no rows, or rows for calendar months.
TablasMensuales ==
    { t \in Mensuales(1) :
        \A i \in 1..Len(t.rows) : t.rows[i].Mes \in 1..12 /\ t.rows[i].Anio = 2024 }

\* What a detail query can yield: no rows, or some row.
TablasDetalle ==
    { DataFrame(<<>>, <<"Nivel">>), DataFrame(<<[Nivel |-> "fila"]>>, <<"Nivel">>) }

TablasDe(nombre) == IF EsMensual(nombre) THEN TablasMensuales ELSE TablasDetalle

Hoja(nombre, df) == [nombre |-> nombre, df |-> df]

\* guardar_en_excel(df, writer, sheet_name): the sheet is added to the
\* writer's workbook (styling and filters do not change its cells).
guardar_en_excel(libro, df, nombre) ==
    {h \in libro : h.nombre # nombre} \cup {Hoja(nombre, df)}

SinDatos == [n \in {consultas[j] : j \in 1..Len(consultas)} |-> DataFrameVacio]

HojaInfo == Hoja("Info", DataFrame(<<[Mensaje |-> "No hay datos disponibles"]>>,
                                   <<"Mensaje">>))

\* ------------------------------------------------------------- state
VARIABLES
    anio,          \* the target year, as text
    df_ingresos,   \* generar_resumen's first argument
    df_egresos,    \* generar_resumen's second argument
    resultado,     \* what the call returned or raised
    fase           \* "entrada", "resumen" (generar_resumen returned), "numerico"

varsResumen == <<anio, df_ingresos, df_egresos, resultado, fase>>

VARIABLES
    pc,              \* where main is
    nivel,           \* the level chosen at the menu
    indice,          \* the position of the query loop in consultas
    dataframes,      \* main's dataframes: sheet name -> table (DataFrameVacio: absent)
    libro,           \* the sheets of the ExcelWriter's workbook
    hojas_escritas,  \* main's flag
    archivo,         \* the output file on disk
    excepcion        \* the exception that ended main, or "ninguna"

varsMain == <<pc, nivel, indice, dataframes, libro, hojas_escritas, archivo, excepcion>>

VARIABLES
    entorno,         \* ejecutar_consulta: the environment of the call
    salida,          \* ejecutar_consulta: how the call ended
    ejecuciones,     \* agregar_graficos: calls made on the file so far
    mensaje          \* agregar_graficos: what the last call printed

varsOtros == <<entorno, salida, ejecuciones, mensaje>>

vars == <<varsResumen, varsMain, varsOtros>>

\* The values of the variables a specification does not use.
ResumenEnReposo ==
    /\ df_ingresos = DataFrameVacio /\ df_egresos = DataFrameVacio
    /\ fase = "reposo"

MainEnReposo ==
    /\ pc = "reposo" /\ nivel = "" /\ indice = 0 /\ dataframes = SinDatos
    /\ libro = {} /\ hojas_escritas = FALSE /\ excepcion = "ninguna"

SinLlamada == [error |-> "pendiente", df |-> DataFrameVacio,
               conn |-> "None", cursor |-> "sin asignar"]

OtrosEnReposo ==
    /\ entorno = CHOOSE e \in Entornos({DataFrameVacio}) : TRUE
    /\ salida = SinLlamada
    /\ ejecuciones = 0
    /\ mensaje = ""

Pendiente == [error |-> "pendiente", df |-> DataFrameVacio]

\* ---------------------------------------- generar_resumen and its caller
InitResumen ==
    /\ df_ingresos \in Mensuales(MaxFilas)
    /\ df_egresos \in Mensuales(MaxFilas)
    /\ Len(df_ingresos.rows) + Len(df_egresos.rows) <= MaxFilas
    /\ anio \in AnioEntradas
    /\ resultado = Pendiente
    /\ fase = "entrada"
    /\ MainEnReposo /\ archivo = ArchivoAusente
    /\ OtrosEnReposo

\* df_resumen = generar_resumen(dataframes[...], dataframes[...], anio)
LlamarGenerarResumen ==
    /\ fase = "entrada"
    /\ resultado' = generar_resumen(df_ingresos, df_egresos, anio)
    /\ fase' = "resumen"
    /\ UNCHANGED <<anio, df_ingresos, df_egresos, varsMain, varsOtros>>

\* The pd.to_numeric assignments that follow a successful call in main.
ConvertirNumerico ==
    /\ fase = "resumen"
    /\ resultado.error = "ninguno"
    /\ resultado' = Devuelve(to_numeric(resultado.df))
    /\ fase' = "numerico"
    /\ UNCHANGED <<anio, df_ingresos, df_egresos, varsMain, varsOtros>>

\* main stores a table in dataframes only when it is not empty and calls
\* generar_resumen only when both monthly tables are stored: with an empty
\* table the summary is skipped.
OmitirSinDatos ==
    /\ fase = "entrada"
    /\ Empty(df_ingresos) \/ Empty(df_egresos)
    /\ fase' = "omitido"
    /\ UNCHANGED <<anio, df_ingresos, df_egresos, resultado, varsMain, varsOtros>>

NextResumen == LlamarGenerarResumen \/ ConvertirNumerico \/ OmitirSinDatos

SpecResumen == InitResumen /\ [][NextResumen]_vars

\* ----------------------------------------- properties of generar_resumen
Llamado == fase \in {"resumen", "numerico"}

Salida == resultado.df.rows

FilasEntrada(df) == {df.rows[i] : i \in 1..Len(df.rows)}

\* The rows of an input table for the target year and a calendar month.
FilasDelAnio(df) ==
    {r \in FilasEntrada(df) : r.Anio = IntDe(anio) /\ r.Mes \in 1..12}

EsCero(x) == x.t \in {"Decimal", "float"} /\ x.c = 0

\* The cell as emitted: the Decimal itself from generar_resumen, the float of
\* the same value after the numeric conversion.
Emitido(x) == IF fase = "numerico" THEN ANumero(x) ELSE x

\* C1: for a year that parses as an integer, the call succeeds and the output
\* has exactly 12 rows, row i being month i of the target year (so one row per
\* month, in ascending month order).
C1_DoceFilasOrdenadas ==
    (Llamado /\ IntParseable(anio)) =>
        /\ resultado.error = "ninguno"
        /\ Len(Salida) = 12
        /\ \A i \in 1..Len(Salida) :
              Salida[i].Mes = i /\ Salida[i].Anio = IntDe(anio)

\* C1 witness: the call returned for one income row and two expense rows.
C1_Witness ==
    /\ fase = "resumen" /\ resultado.error = "ninguno"
    /\ Len(df_ingresos.rows) = 1 /\ Len(df_egresos.rows) = 2
    /\ FilasDelAnio(df_egresos) # {}

\* C2: an income row of the target year for month M with amount A gives
\* exactly A in Monto_Ingresos of the output row of month M, and an expense
\* row gives exactly A in Monto_Egresos of the output row of month M.
C2_Completitud ==
    (Llamado /\ IntParseable(anio)) =>
        /\ \A r \in FilasDelAnio(df_ingresos) :
              /\ \E o \in FilasEntrada(resultado.df) : o.Mes = r.Mes
              /\ \A o \in FilasEntrada(resultado.df) :
                    o.Mes = r.Mes => o.Monto_Ingresos = Emitido(r.Monto)
        /\ \A r \in FilasDelAnio(df_egresos) :
              /\ \E o \in FilasEntrada(resultado.df) : o.Mes = r.Mes
              /\ \A o \in FilasEntrada(resultado.df) :
                    o.Mes = r.Mes => o.Monto_Egresos = Emitido(r.Monto)

\* C2 witness: the same month has an income row and an expense row with
\* different amounts, and another month has an expense row only.
C2_Witness ==
    /\ fase = "resumen" /\ resultado.error = "ninguno"
    /\ \E r \in FilasDelAnio(df_ingresos), e \in FilasDelAnio(df_egresos) :
          r.Mes = e.Mes /\ r.Monto # e.Monto
    /\ \E e \in FilasDelAnio(df_egresos) :
          \A r \in FilasDelAnio(df_ingresos) : r.Mes # e.Mes

\* C3: a month of 1..12 with no income row gets income 0, one with no expense
\* row gets expense 0, and one with neither also gets balance 0; the month is
\* present in the output.
C3_Relleno ==
    (Llamado /\ IntParseable(anio)) =>
        \A m \in 1..12 :
            /\ \E o \in FilasEntrada(resultado.df) : o.Mes = m
            /\ \A o \in FilasEntrada(resultado.df) :
                 o.Mes = m =>
                   LET sinIng == \A r \in FilasDelAnio(df_ingresos) : r.Mes # m
                       sinEgr == \A r \in FilasDelAnio(df_egresos) : r.Mes # m
                   IN  /\ sinIng => EsCero(o.Monto_Ingresos)
                       /\ sinEgr => EsCero(o.Monto_Egresos)
                       /\ (sinIng /\ sinEgr) => EsCero(o.Balance)

\* C3 witness: the call returned with a month present in income only, a month
\* present in neither table, and an empty expense table.
C3_Witness ==
    /\ fase = "resumen" /\ resultado.error = "ninguno"
    /\ FilasDelAnio(df_ingresos) # {}
    /\ Len(df_egresos.rows) = 0
    /\ \E m \in 1..12 : \A r \in FilasDelAnio(df_ingresos) : r.Mes # m

\* C4: in every output row the balance is the income of that row minus the
\* expense of that row, exactly, before and after the numeric conversion.
C4_Balance ==
    (Llamado /\ resultado.error = "ninguno") =>
        \A i \in 1..Len(Salida) :
            /\ Salida[i].Balance.t # "NaN"
            /\ Salida[i].Monto_Ingresos.t # "NaN"
            /\ Salida[i].Monto_Egresos.t # "NaN"
            /\ Salida[i].Balance.t = Salida[i].Monto_Ingresos.t
            /\ Salida[i].Balance.c
                 = Salida[i].Monto_Ingresos.c - Salida[i].Monto_Egresos.c

\* C4 witness: after the numeric conversion some row has a negative balance
\* and some row a non-zero income and a non-zero expense.
C4_Witness ==
    /\ fase = "numerico"
    /\ \E i \in 1..Len(Salida) : Salida[i].Balance.c < 0
    /\ \E i \in 1..Len(Salida) :
          Salida[i].Monto_Ingresos.c # 0 /\ Salida[i].Monto_Egresos.c # 0

EsEnteroPositivo(s) == IntParseable(s) /\ IntDe(s) > 0

\* C6 (as claimed): for a valid year, a row whose month is outside 1..12, in
\* either table, makes the call fail and return no table (whatever the error
\* raised is called).
C6_MesFueraDeRango ==
    (Llamado /\ EsEnteroPositivo(anio)
       /\ \E r \in FilasEntrada(df_ingresos) \cup FilasEntrada(df_egresos) :
             r.Mes \notin 1..12)
    => (resultado.error # "ninguno" /\ Len(Salida) = 0)

\* C7 (as claimed): the call fails when the year is not a positive integer
\* (text that is no number, zero, a negative number) and succeeds only for a
\* positive integer (whatever the error raised is called).
C7_AnioInvalido ==
    Llamado => (resultado.error = "ninguno" <=> EsEnteroPositivo(anio))

\* ------------------------------------------------------ the report run
InitMain ==
    /\ pc = "nivel" /\ nivel = "" /\ anio = <<>> /\ indice = 0
    /\ dataframes = SinDatos /\ libro = {} /\ hojas_escritas = FALSE
    /\ archivo = ArchivoAusente /\ excepcion = "ninguna"
    /\ resultado = Pendiente
    /\ ResumenEnReposo /\ OtrosEnReposo

\* The menu loop: an option outside the table asks again.
PedirNivel ==
    /\ pc = "nivel"
    /\ \E op \in Opciones :
          IF OpcionValida(op)
          THEN nivel' = NivelDe(op) /\ pc' = "anio"
          ELSE UNCHANGED <<nivel, pc>>
    /\ UNCHANGED <<anio, indice, dataframes, libro, hojas_escritas, archivo,
                   excepcion, resultado, df_ingresos, df_egresos, fase, varsOtros>>

\* anio = anio_input if anio_input else str(current_year)
PedirAnio ==
    /\ pc = "anio"
    /\ \E anio_input \in AnioEntradas \cup {<<>>} :
          anio' = IF anio_input # <<>> THEN anio_input ELSE current_year
    /\ pc' = "abrir"
    /\ UNCHANGED <<nivel, indice, dataframes, libro, hojas_escritas, archivo,
                   excepcion, resultado, df_ingresos, df_egresos, fase, varsOtros>>

\* with pd.ExcelWriter(nombre_archivo, engine="openpyxl") as writer: the
\* writer opens the file for writing, which creates it, with an empty workbook.
AbrirWriter ==
    /\ pc = "abrir"
    /\ archivo' = [existe |-> TRUE, hojas |-> {}, charts |-> <<>>]
    /\ libro' = {}
    /\ dataframes' = SinDatos
    /\ hojas_escritas' = FALSE
    /\ indice' = 1
    /\ pc' = "consultas"
    /\ UNCHANGED <<nivel, anio, excepcion, resultado, df_ingresos, df_egresos,
                   fase, varsOtros>>

\* An exception inside the with block: the writer's __exit__ closes it, which
\* saves the workbook as it stands, and the exception leaves main.
Abortar(e) ==
    /\ excepcion' = e
    /\ archivo' = [archivo EXCEPT !.hojas = libro]
    /\ pc' = "abortado"

\* One turn of the query loop: df = ejecutar_consulta(query), and the table is
\* saved and kept only when it is not empty.
ConsultarYGuardar ==
    /\ pc = "consultas"
    /\ \E e \in Entornos(TablasDe(consultas[indice])) :
          LET r == ejecutar_consulta(e)
              nombre_hoja == consultas[indice]
          IN  IF r.error # "ninguno"
              THEN /\ Abortar(r.error)
                   /\ UNCHANGED <<libro, dataframes, hojas_escritas, indice>>
              ELSE /\ IF ~Empty(r.df)
                      THEN /\ libro' = guardar_en_excel(libro, r.df, nombre_hoja)
                           /\ dataframes' = [dataframes EXCEPT ![nombre_hoja] = r.df]
                           /\ hojas_escritas' = TRUE
                      ELSE UNCHANGED <<libro, dataframes, hojas_escritas>>
                   /\ indice' = indice + 1
                   /\ pc' = IF indice = Len(consultas) THEN "resumen" ELSE "consultas"
                   /\ UNCHANGED <<archivo, excepcion>>
    /\ UNCHANGED <<nivel, anio, resultado, df_ingresos, df_egresos, fase, varsOtros>>

EnDataframes(nombre) == dataframes[nombre] # DataFrameVacio

HayMensuales == EnDataframes("Ingresos Mensuales") /\ EnDataframes("Egresos Mensuales")

\* if "Ingresos Mensuales" in dataframes and "Egresos Mensuales" in dataframes:
\* the summary is generated, converted and saved as the sheet "Resumen".
GenerarYGuardarResumen ==
    /\ pc = "resumen"
    /\ HayMensuales
    /\ LET r == generar_resumen(dataframes["Ingresos Mensuales"],
                                dataframes["Egresos Mensuales"], anio)
       IN  /\ resultado' = r
           /\ IF r.error # "ninguno"
              THEN /\ Abortar(r.error)
                   /\ UNCHANGED <<libro, hojas_escritas>>
              ELSE /\ libro' = guardar_en_excel(libro, to_numeric(r.df), "Resumen")
                   /\ hojas_escritas' = TRUE
                   /\ pc' = "cerrar"
                   /\ UNCHANGED <<archivo, excepcion>>
    /\ UNCHANGED <<nivel, anio, indice, dataframes, df_ingresos, df_egresos,
                   fase, varsOtros>>

\* The summary is skipped when either monthly table is not in dataframes.
OmitirResumen ==
    /\ pc = "resumen"
    /\ ~HayMensuales
    /\ pc' = "cerrar"
    /\ UNCHANGED <<nivel, anio, indice, dataframes, libro, hojas_escritas, archivo,
                   excepcion, resultado, df_ingresos, df_egresos, fase, varsOtros>>

\* The end of the with block: the sheet "Info" when nothing was written, and
\* the writer saves the workbook to the file.
CerrarWriter ==
    /\ pc = "cerrar"
    /\ libro' = IF ~hojas_escritas THEN libro \cup {HojaInfo} ELSE libro
    /\ archivo' = [archivo EXCEPT !.hojas = libro']
    /\ pc' = "graficos"
    /\ UNCHANGED <<nivel, anio, indice, dataframes, hojas_escritas, excepcion,
                   resultado, df_ingresos, df_egresos, fase, varsOtros>>

\* if hojas_escritas: agregar_graficos(nombre_archivo)
AgregarGraficosMain ==
    /\ pc = "graficos"
    /\ \E carga \in BOOLEAN :
          LET r == agregar_graficos(archivo, carga)
          IN  IF hojas_escritas
              THEN archivo' = r.archivo /\ mensaje' = r.mensaje
              ELSE UNCHANGED <<archivo, mensaje>>
    /\ pc' = "fin"
    /\ UNCHANGED <<nivel, anio, indice, dataframes, libro, hojas_escritas,
                   excepcion, resultado, df_ingresos, df_egresos, fase,
                   entorno, salida, ejecuciones>>

NextMain ==
    \/ PedirNivel
    \/ PedirAnio
    \/ AbrirWriter
    \/ ConsultarYGuardar
    \/ GenerarYGuardarResumen
    \/ OmitirResumen
    \/ CerrarWriter
    \/ AgregarGraficosMain

SpecMain == InitMain /\ [][NextMain]_vars

AmbosVacios == Len(df_ingresos.rows) = 0 /\ Len(df_egresos.rows) = 0

TodoCero(rows) ==
    \A i \in 1..Len(rows) :
        EsCero(rows[i].Monto_Ingresos) /\ EsCero(rows[i].Monto_Egresos)
        /\ EsCero(rows[i].Balance)

\* C5 (as claimed): with both monthly tables empty the summary is still
\* produced, 12 all-zero rows, whether generar_resumen is called directly or
\* the report run decides about it.
C5_VaciosConCalendario ==
    (fase # "entrada" /\ AmbosVacios /\ IntParseable(anio)) =>
        /\ resultado.error = "ninguno"
        /\ Len(Salida) = 12
        /\ TodoCero(Salida)

\* C5 (amended): a call of generar_resumen with both tables empty (zero rows,
\* columns present) succeeds and returns 12 all-zero rows for months 1..12.
C5_VaciosLlamada ==
    (Llamado /\ AmbosVacios /\ IntParseable(anio)) =>
        /\ resultado.error = "ninguno"
        /\ Len(Salida) = 12
        /\ \A i \in 1..Len(Salida) : Salida[i].Mes = i
        /\ TodoCero(Salida)

\* C5 witness: generar_resumen returned for two empty tables.
C5_Witness ==
    fase = "resumen" /\ AmbosVacios /\ resultado.error = "ninguno"

\* C8 (as claimed): when generar_resumen raises inside the report run, no
\* output file exists.
C8_SinArchivoSiError ==
    (pc = "abortado" /\ resultado.error \notin {"ninguno", "pendiente"})
    => ~archivo.existe

\* ----------------------------------------- ejecutar_consulta on its own
InitConsulta ==
    /\ entorno \in Entornos(TablasMensuales \cup TablasDetalle)
    /\ salida = SinLlamada
    /\ ejecuciones = 0 /\ mensaje = ""
    /\ anio = <<>> /\ resultado = Pendiente /\ ResumenEnReposo
    /\ MainEnReposo /\ archivo = ArchivoAusente

EjecutarConsulta ==
    /\ salida.error = "pendiente"
    /\ salida' = ejecutar_consulta(entorno)
    /\ UNCHANGED <<entorno, ejecuciones, mensaje, varsResumen, varsMain>>

NextConsulta == EjecutarConsulta

SpecConsulta == InitConsulta /\ [][NextConsulta]_vars

\* C10 (as claimed): a connection that was opened is closed (or already lost)
\* when the call ends, on every path, and a call in which a step failed
\* returns an empty table instead of raising.
C10_ConexionLiberada ==
    salida.error # "pendiente" =>
        /\ entorno.connect = "ok" => salida.conn \in {"cerrada", "desconectada"}
        /\ Falla(entorno) # "ninguna" =>
              salida.error = "ninguno" /\ Empty(salida.df)

\* ------------------------------------------ agregar_graficos on its own
\* Charts attached to a sheet before a call.
MaxCharts == 3

\* Calls of agregar_graficos on the same file.
MaxEjecuciones == 2

RECURSIVE Secuencias(_, _)
Secuencias(S, n) ==
    IF n = 0 THEN {<<>>}
    ELSE LET menores == Secuencias(S, n - 1)
         IN  menores \cup {Append(q, x) : q \in menores, x \in S}

HojaResumen == Hoja("Resumen", DataFrame(<<>>, cols))

InitGraficos ==
    /\ \E hs \in {{HojaResumen}, {HojaInfo}},
          cs \in Secuencias({ChartBar, ChartLine, "otro"}, MaxCharts) :
          archivo = [existe |-> TRUE, hojas |-> hs, charts |-> cs]
    /\ ejecuciones = 0 /\ mensaje = ""
    /\ entorno = CHOOSE e \in Entornos({DataFrameVacio}) : TRUE
    /\ salida = SinLlamada
    /\ anio = <<>> /\ resultado = Pendiente /\ ResumenEnReposo
    /\ MainEnReposo

AgregarGraficos ==
    /\ ejecuciones < MaxEjecuciones
    /\ \E carga \in BOOLEAN :
          LET r == agregar_graficos(archivo, carga)
          IN  archivo' = r.archivo /\ mensaje' = r.mensaje
    /\ ejecuciones' = ejecuciones + 1
    /\ UNCHANGED <<entorno, salida, varsResumen, pc, nivel, indice, dataframes,
                   libro, hojas_escritas, excepcion>>

NextGraficos == AgregarGraficos

SpecGraficos == InitGraficos /\ [][NextGraficos]_vars

\* C9 (as claimed): when agregar_graficos completes, the sheet holds exactly
\* the bar chart and the line chart it attached, whatever was attached before.
C9_SoloDosGraficos ==
    mensaje = "Graficos agregados correctamente." =>
        archivo.charts = <<ChartBar, ChartLine>>

====
